---- MODULE Spec2Model ----
(***************************************************************************)
(* Model of app.py, the NER API: a FastAPI process that loads a spaCy      *)
(* pipeline at import time and serves POST /predict and GET /health.       *)
(*                                                                         *)
(* Strings are sequences of one-character strings so that strip(), slicing *)
(* and character offsets are computed, not assumed.  An optional value     *)
(* (Optional[...] = None, or a JSON key that is absent) is a sequence of   *)
(* length 0 or 1: None == <<>>, Some(v) == <<v>>.                          *)
(***************************************************************************)
EXTENDS Integers, Sequences, FiniteSets, TLC

VARIABLES proc, nlp, loads, message, call, calls

vars == <<proc, nlp, loads, message, call, calls>>

\* the module-level state of the process (everything but the calls in flight)
shared == <<proc, nlp, loads, message>>

-----------------------------------------------------------------------------
(* Bounds of the model *)

\* longest request text, in characters
MaxLen == 4
\* longest caller-supplied tokens list
MaxTokens == 1
\* number of calls in flight at once in SpecConc
NumCalls == 2

-----------------------------------------------------------------------------
(* Values *)

None == <<>>
Some(v) == <<v>>

\* Python truthiness of an Optional[str] / Optional[List[str]]:
\* None, "" and [] are falsy
Truthy(opt) == opt # None /\ opt[1] # <<>>

Whitespace == {" ", "\t"}
NonSpace == {"a", "B"}
Alphabet == Whitespace \cup NonSpace

SeqsUpTo(S, n) == UNION {[1..k -> S] : k \in 0..n}

Texts == SeqsUpTo(Alphabet, MaxLen)
TokenWords == {<<"H", "i">>, <<"t">>}
TokenLists == SeqsUpTo(TokenWords, MaxTokens)
Domains == {<<>>, <<"t", "e", "s", "t">>}

\* s[a:b] of Python, 0-based and half-open, clamped like Python clamps it
Slice(s, a, b) ==
    LET lo == IF a < 0 THEN 0 ELSE a
        hi == IF b > Len(s) THEN Len(s) ELSE b
    IN  IF lo >= hi THEN <<>> ELSE SubSeq(s, lo + 1, hi)

RECURSIVE lstrip(_)
lstrip(s) == IF s # <<>> /\ Head(s) \in Whitespace THEN lstrip(Tail(s)) ELSE s

RECURSIVE rstrip(_)
rstrip(s) ==
    IF s # <<>> /\ s[Len(s)] \in Whitespace THEN rstrip(SubSeq(s, 1, Len(s) - 1)) ELSE s

\* str.strip() with no argument: every leading and trailing whitespace character
strip(s) == rstrip(lstrip(s))

-----------------------------------------------------------------------------
(* The spaCy pipeline behind nlp(text): app.py treats it as a black box    *)
(* that returns a Doc over exactly the string it was given.  A loaded      *)
(* pipeline is a function from the first character of a word to the label  *)
(* its recogniser gives that word ("O": not an entity).                    *)

Labels == {"O", "PERSON", "GPE"}
Models == [NonSpace -> Labels]

\* a Token: its text and Token.idx, its character offset in the Doc's text
Tok(s, start, i) == [text |-> Slice(s, start, i), idx |-> start]

\* spaCy's tokenizer loop: the text is cut where whitespace starts or ends; a
\* single " " after a word is that word's trailing space, any other run of
\* whitespace is a token of its own.  i and start are 0-based offsets.
RECURSIVE TokLoop(_, _, _, _, _)
TokLoop(s, i, start, in_ws, toks) ==
    IF i >= Len(s)
    THEN IF start < i THEN Append(toks, Tok(s, start, i)) ELSE toks
    ELSE LET uc == s[i + 1]
         IN  IF (uc \in Whitespace) # in_ws
             THEN TokLoop(s, i + 1, IF uc = " " THEN i + 1 ELSE i, ~in_ws,
                          IF start < i THEN Append(toks, Tok(s, start, i)) ELSE toks)
             ELSE TokLoop(s, i + 1, start, in_ws, toks)

Tokenize(s) == IF s = <<>> THEN <<>> ELSE TokLoop(s, 0, 0, s[1] \in Whitespace, <<>>)

TokLabel(m, tok) == IF Head(tok.text) \in Whitespace THEN "O" ELSE m[Head(tok.text)]

\* a Span of doc.ents: start_char, end_char, label_ and Span.text, which spaCy
\* reads off the Doc's own text between the two offsets
Ent(s, start, end, label) ==
    [start_char |-> start, end_char |-> end, label_ |-> label, text |-> Slice(s, start, end)]

\* the recogniser: a labelled word is an entity, and neighbouring words with the
\* same label are one entity ("Barack Obama"); prev is the index of the last
\* token of the entity that is still open, 0 when none is
RECURSIVE EntLoop(_, _, _, _, _, _)
EntLoop(m, s, toks, i, prev, ents) ==
    IF i > Len(toks) THEN ents
    ELSE LET tok == toks[i]
             l == TokLabel(m, tok)
             end == tok.idx + Len(tok.text)
         IN  IF l = "O" THEN EntLoop(m, s, toks, i + 1, 0, ents)
             ELSE IF prev = i - 1 /\ prev > 0 /\ ents[Len(ents)].label_ = l
             THEN EntLoop(m, s, toks, i + 1, i,
                          [ents EXCEPT ![Len(ents)] = Ent(s, @.start_char, end, l)])
             ELSE EntLoop(m, s, toks, i + 1, i, Append(ents, Ent(s, tok.idx, end, l)))

\* doc = nlp(text) for the loaded pipeline m
nlpDoc(m, text) ==
    LET toks == Tokenize(text)
    IN  [text |-> text, tokens |-> toks, ents |-> EntLoop(m, text, toks, 1, 0, <<>>)]

-----------------------------------------------------------------------------
(* Requests and responses *)

Opt(S) == {None} \cup {Some(v) : v \in S}

\* the JSON bodies a client can post to /predict: every key may be absent
Bodies == [text : Opt(Texts), tokens : Opt(TokenLists), domain : Opt(Domains)]

\* a 200 response with its JSON content
Ok(content) == [status_code |-> 200, detail |-> "", content |-> Some(content)]

\* raise HTTPException(status_code=..., detail=...)
HTTPException(status_code, detail) ==
    [status_code |-> status_code, detail |-> detail, content |-> None]

\* class PredictIn: text is a required str, so a body without it never reaches
\* predict; FastAPI answers 422 with pydantic's own detail
RequestValidationError == HTTPException(422, "Field required")
PredictIn(body) == body.text # None

\* an exception that leaves predict is answered by the server's generic 500
InternalServerError == HTTPException(500, "Internal Server Error")

-----------------------------------------------------------------------------
(* predict and health *)

\* mutant of TextOf: lstrip() where strip() is meant
TextOfLstrip(payload) == lstrip(IF Truthy(payload.text) THEN payload.text[1] ELSE <<>>)

\* text = (payload.text or "").strip()
TextOf(payload) == strip(IF Truthy(payload.text) THEN payload.text[1] ELSE <<>>)

\* mutant of ModelArg: nlp(payload.text)
ModelArgRaw(payload, text) == payload.text[1]

\* the argument of nlp(...): the local text, not payload.text
ModelArg(payload, text) == text

\* mutant of nlpAfter: a pipeline that adapts to the texts it is called with
nlpAfterAdapting(m, text) == [m EXCEPT ![text[1]] = "PERSON"]

\* nlp is only ever called: no handler assigns it, and calling the pipeline
\* leaves it as it was loaded
nlpAfter(m, text) == m

\* mutant of ModelFailure: a catch-all that reports every failure as a bad request
ModelFailureAs400 == HTTPException(400, "Text is required")

\* nlp(text) raised and predict has no try/except around it
ModelFailure == InternalServerError

\* mutant of entities: the records are collected back to front
entitiesReversed(doc) ==
    [i \in 1..Len(doc.ents) |->
        LET e == doc.ents[Len(doc.ents) + 1 - i]
        IN  [start |-> e.start_char, end |-> e.end_char, label |-> e.label_, text |-> e.text]]

\* entities = [{"start": ..., "end": ..., "label": ..., "text": ...} for ent in doc.ents]
entities(doc) ==
    [i \in 1..Len(doc.ents) |->
        [start |-> doc.ents[i].start_char, end |-> doc.ents[i].end_char,
         label |-> doc.ents[i].label_, text |-> doc.ents[i].text]]

\* mutant of tokens: payload.tokens if payload.tokens is not None else ...
tokensIfNotNone(payload, doc) ==
    IF payload.tokens # None THEN payload.tokens[1]
    ELSE [i \in 1..Len(doc.tokens) |-> doc.tokens[i].text]

\* tokens = payload.tokens if payload.tokens else [t.text for t in doc]
tokens(payload, doc) ==
    IF Truthy(payload.tokens) THEN payload.tokens[1]
    ELSE [i \in 1..Len(doc.tokens) |-> doc.tokens[i].text]

\* mutant of domain: payload.domain, without the default
domainOrNone(payload) == payload.domain

\* payload.domain or ""
domain(payload) == Some(IF Truthy(payload.domain) THEN payload.domain[1] ELSE <<>>)

\* the body of predict for the loaded pipeline m; raises: the engine fails on
\* this call.  input records the string nlp was called with, None when it was
\* not called.
predict(m, payload, raises) ==
    LET text == TextOf(payload)
    IN  IF text = <<>>
        THEN [resp |-> HTTPException(400, "Text is required"), input |-> None]
        ELSE IF raises
        THEN [resp |-> ModelFailure, input |-> Some(ModelArg(payload, text))]
        ELSE LET doc == nlpDoc(m, ModelArg(payload, text))
             IN  [resp |-> Ok([text |-> text, entities |-> entities(doc),
                               tokens |-> tokens(payload, doc),
                               domain |-> domain(payload)]),
                  input |-> Some(ModelArg(payload, text))]

\* POST /predict: the body is validated against PredictIn, then predict runs
PostPredict(m, body, raises) ==
    IF PredictIn(body) THEN predict(m, body, raises)
    ELSE [resp |-> RequestValidationError, input |-> None]

\* mutant of health: a probe that also names the pipeline
healthWithModel == [status |-> "ok", model |-> "en_core_web_sm"]

\* def health(): return {"status": "ok"}
health == [status |-> "ok"]

-----------------------------------------------------------------------------
(* The process *)

Remediation == "Run: python -m spacy download en_core_web_sm"

Idle == [op |-> "idle"]

Init ==
    /\ proc = "init"
    /\ nlp = None
    /\ loads = 0
    /\ message = ""
    /\ call = Idle
    /\ calls = [c \in 1..NumCalls |-> Idle]

\* the module-level try block runs when the module is imported, once
LoadEnabled == proc = "init"

\* mutant of LoadFailed: the exception is reported and swallowed
LoadFailedSwallowed == [proc |-> "serving", nlp |-> None, message |-> Remediation]

\* except Exception: raise RuntimeError(...): the import fails, nothing is served
LoadFailed == [proc |-> "failed", nlp |-> None, message |-> Remediation]

\* try: nlp = spacy.load("en_core_web_sm")
Load(ok, m) ==
    /\ LoadEnabled
    /\ loads' = loads + 1
    /\ IF ok
       THEN /\ nlp' = Some(m)
            /\ proc' = "serving"
            /\ UNCHANGED message
       ELSE /\ nlp' = LoadFailed.nlp
            /\ proc' = LoadFailed.proc
            /\ message' = LoadFailed.message
    /\ UNCHANGED <<call, calls>>

\* a POST /predict is handled: predict is an async def with no await in it, so
\* the whole handler runs as one step of the event loop
Predict ==
    /\ proc = "serving"
    /\ call = Idle
    /\ \E body \in Bodies, raises \in BOOLEAN :
          call' = [op |-> "predict", body |-> body, raises |-> raises,
                   out |-> PostPredict(nlp[1], body, raises)]
    /\ UNCHANGED <<shared, calls>>

\* a GET /health is handled
Health ==
    /\ proc = "serving"
    /\ call = Idle
    /\ call' = [op |-> "health", out |-> [resp |-> Ok(health), input |-> None]]
    /\ UNCHANGED <<shared, calls>>

\* the response is sent and the connection is free for the next request
Deliver ==
    /\ call # Idle
    /\ call' = Idle
    /\ UNCHANGED <<shared, calls>>

Next ==
    \/ \E ok \in BOOLEAN, m \in Models : Load(ok, m)
    \/ Predict
    \/ Health
    \/ Deliver

Spec == Init /\ [][Next]_vars

-----------------------------------------------------------------------------
(* Calls in flight together.  The steps of predict are taken one at a time   *)
(* and the calls interleave freely, which allows every schedule a server     *)
(* with worker threads could produce (health is a plain def and does run in  *)
(* a worker thread).  Each call keeps its own payload, text and doc: they    *)
(* are parameters and locals of predict.                                     *)

CallIds == 1..NumCalls

\* the bodies posted in SpecConc: no text, blank text, text to trim, and a
\* request with its own tokens and domain
ConcBodies ==
    { [text |-> None, tokens |-> None, domain |-> None],
      [text |-> Some(<<" ", "\t">>), tokens |-> None, domain |-> None],
      [text |-> Some(<<" ", "B", "a">>), tokens |-> None, domain |-> None],
      [text |-> Some(<<"a", " ", "B">>), tokens |-> Some(<< <<"H", "i">> >>),
       domain |-> Some(<<"t", "e", "s", "t">>)] }

Finished(body, raises, out) ==
    [op |-> "predict", pc |-> "done", body |-> body, raises |-> raises, out |-> out]

\* POST /predict arrives: the body is validated against PredictIn
Accept(c, body) ==
    /\ proc = "serving"
    /\ calls[c] = Idle
    /\ calls' = [calls EXCEPT ![c] =
            IF PredictIn(body)
            THEN [op |-> "predict", pc |-> "validate", payload |-> body]
            ELSE Finished(body, FALSE, [resp |-> RequestValidationError, input |-> None])]
    /\ UNCHANGED <<shared, call>>

\* text = (payload.text or "").strip(); if not text: raise HTTPException(...)
Validate(c) ==
    /\ calls[c].op = "predict"
    /\ calls[c].pc = "validate"
    /\ LET payload == calls[c].payload
           text == TextOf(payload)
       IN  calls' = [calls EXCEPT ![c] =
               IF text = <<>>
               THEN Finished(payload, FALSE,
                             [resp |-> HTTPException(400, "Text is required"),
                              input |-> None])
               ELSE [op |-> "predict", pc |-> "invoke", payload |-> payload,
                     text |-> text]]
    /\ UNCHANGED <<shared, call>>

\* doc = nlp(text), which may raise
Invoke(c, raises) ==
    /\ calls[c].op = "predict"
    /\ calls[c].pc = "invoke"
    /\ LET payload == calls[c].payload
           text == calls[c].text
       IN  /\ calls' = [calls EXCEPT ![c] =
                  IF raises
                  THEN Finished(payload, TRUE,
                                [resp |-> ModelFailure,
                                 input |-> Some(ModelArg(payload, text))])
                  ELSE [op |-> "predict", pc |-> "shape", payload |-> payload,
                        text |-> text,
                        doc |-> nlpDoc(nlp[1], ModelArg(payload, text))]]
           /\ nlp' = Some(nlpAfter(nlp[1], ModelArg(payload, text)))
    /\ UNCHANGED <<proc, loads, message, call>>

\* entities = [...]; tokens = ...; return {...}
Shape(c) ==
    /\ calls[c].op = "predict"
    /\ calls[c].pc = "shape"
    /\ LET payload == calls[c].payload
           doc == calls[c].doc
       IN  calls' = [calls EXCEPT ![c] =
               Finished(payload, FALSE,
                        [resp |-> Ok([text |-> calls[c].text,
                                      entities |-> entities(doc),
                                      tokens |-> tokens(payload, doc),
                                      domain |-> domain(payload)]),
                         input |-> Some(doc.text)])]
    /\ UNCHANGED <<shared, call>>

\* GET /health
HealthCall(c) ==
    /\ proc = "serving"
    /\ calls[c] = Idle
    /\ calls' = [calls EXCEPT ![c] =
            [op |-> "health", pc |-> "done",
             out |-> [resp |-> Ok(health), input |-> None]]]
    /\ UNCHANGED <<shared, call>>

\* the response of a finished call is sent
Respond(c) ==
    /\ calls[c] # Idle
    /\ calls[c].pc = "done"
    /\ calls' = [calls EXCEPT ![c] = Idle]
    /\ UNCHANGED <<shared, call>>

NextConc ==
    \/ \E ok \in BOOLEAN, m \in Models : Load(ok, m)
    \/ \E c \in CallIds, body \in ConcBodies : Accept(c, body)
    \/ \E c \in CallIds : Validate(c)
    \/ \E c \in CallIds, raises \in BOOLEAN : Invoke(c, raises)
    \/ \E c \in CallIds : Shape(c)
    \/ \E c \in CallIds : HealthCall(c)
    \/ \E c \in CallIds : Respond(c)

SpecConc == Init /\ [][NextConc]_vars

-----------------------------------------------------------------------------
(* Properties of the handled call *)

IsBlank(t) == \A i \in 1..Len(t) : t[i] \in Whitespace

\* s is t without its leading and trailing whitespace
IsTrimOf(s, t) ==
    \E a, b \in 0..Len(t) :
        /\ s = Slice(t, a, b)
        /\ \A i \in 1..Len(t) : (i <= a \/ i > b) => t[i] \in Whitespace
        /\ s # <<>> => (s[1] \notin Whitespace /\ s[Len(s)] \notin Whitespace)

\* the request has a text that is not blank
ValidBody(body) == body.text # None /\ ~IsBlank(body.text[1])

PredictDone == call.op = "predict"
PredictOk == PredictDone /\ call.out.resp.status_code = 200
Content == call.out.resp.content[1]

\* C1: a predict request whose text is empty, whitespace-only or absent gets the
\* 400 response with detail "Text is required", never a success.
C1_BlankOrAbsentIs400 ==
    (PredictDone /\ ~ValidBody(call.body))
        => call.out.resp = HTTPException(400, "Text is required")

\* C2: the response's tokens are the request's tokens when that list is supplied
\* and non-empty, and otherwise the pipeline's own tokens of the trimmed text.
C2_TokensOverride ==
    PredictOk =>
        LET own == Tokenize(strip(call.body.text[1]))
        IN  Content.tokens =
                IF call.body.tokens # None /\ Len(call.body.tokens[1]) > 0
                THEN call.body.tokens[1]
                ELSE [i \in 1..Len(own) |-> own[i].text]

C2_Witness ==
    /\ PredictOk
    /\ call.body.tokens # None
    /\ Len(call.body.tokens[1]) > 0
    /\ Content.tokens # [i \in 1..Len(Tokenize(Content.text)) |-> Tokenize(Content.text)[i].text]

\* C3: for every entity of a success response, the response text between the
\* entity's start and end offsets is the entity's text.
C3_EntityTextIsSlice ==
    PredictOk =>
        \A i \in 1..Len(Content.entities) :
            LET e == Content.entities[i]
            IN  Slice(Content.text, e.start, e.end) = e.text

C3_Witness ==
    /\ PredictOk
    /\ Len(Content.entities) = 2
    /\ call.body.text[1][1] \in Whitespace
    /\ Content.entities[1].start = 0
    /\ Content.entities[2].end = Len(Content.text)

C5_DomainEchoed ==
    PredictOk =>
        /\ Content.domain = IF call.body.domain # None THEN call.body.domain ELSE Some(<<>>)
        /\ \A d \in Opt(Domains) :
              LET other == PostPredict(nlp[1], [call.body EXCEPT !.domain = d],
                                       call.raises).resp.content[1]
              IN  /\ other.text = Content.text
                  /\ other.entities = Content.entities
                  /\ other.tokens = Content.tokens

C5_Witness == PredictOk /\ call.body.domain = None /\ Content.domain = Some(<<>>)

\* C6: once the pipeline is loaded, every health call answers {"status": "ok"}
\* and leaves the process state as it was.
C6_HealthOk ==
    [][Health => (call'.out.resp = Ok([status |-> "ok"]) /\ UNCHANGED shared)]_vars

C6_Witness == call.op = "health" /\ proc = "serving"

C8_EntitiesAsReported ==
    PredictOk =>
        LET ents == nlpDoc(nlp[1], strip(call.body.text[1])).ents
        IN  /\ Len(Content.entities) = Len(ents)
            /\ \A i \in 1..Len(ents) :
                  /\ Content.entities[i].start = ents[i].start_char
                  /\ Content.entities[i].end = ents[i].end_char
                  /\ Content.entities[i].label = ents[i].label_

C8_Witness ==
    /\ PredictOk
    /\ Len(Content.entities) = 2
    /\ Content.entities[1].label # Content.entities[2].label

\* C9: when the pipeline fails on a request with valid text, the call ends in
\* the generic 500 response, which has none of the request in it, and the
\* process goes on serving.
C9_ModelFailureIs500 ==
    (PredictDone /\ ValidBody(call.body) /\ call.raises)
        => /\ call.out.resp.status_code = 500
           /\ call.out.resp.detail = "Internal Server Error"
           /\ call.out.resp.content = None
           /\ proc = "serving"
           /\ nlp # None

C9_Witness ==
    PredictDone /\ ValidBody(call.body) /\ call.raises /\ call.out.resp.status_code = 500

\* C10: however predict and health calls interleave, no step of a call changes
\* the loaded pipeline or any other process state, every finished call has the
\* response it would have alone on the same request, and a call that failed
\* validation never called the pipeline.
C10_CallsAreIndependent ==
    /\ [](\A c \in CallIds :
            (calls[c] # Idle /\ calls[c].pc = "done") =>
                IF calls[c].op = "health"
                THEN calls[c].out.resp = Ok([status |-> "ok"])
                ELSE /\ calls[c].out = PostPredict(nlp[1], calls[c].body, calls[c].raises)
                     /\ calls[c].out.resp.status_code \in {400, 422}
                            => calls[c].out.input = None)
    /\ [][proc = "serving" => UNCHANGED shared]_vars

C10_Witness ==
    \E c, d \in CallIds :
        /\ c # d
        /\ calls[c] # Idle /\ calls[c].op = "predict" /\ calls[c].pc = "done"
        /\ calls[c].out.resp.status_code = 200
        /\ calls[d] # Idle /\ calls[d].op = "predict" /\ calls[d].pc = "done"
        /\ calls[d].out.resp.status_code = 400

====
